---- MODULE Spec2Model ----
(***************************************************************************)
(* Live-ingest control plane of the streaming platform:                    *)
(*   - the webhook delivery engine (backend/services/webhook_dispatcher.py)*)
(*   - the ingest authorization gateway, plain and Control-Plane           *)
(*     integrated (streaming-engine/webhook-handler/main.py and            *)
(*     main_integrated.py)                                                 *)
(***************************************************************************)
EXTENDS Integers, Sequences, FiniteSets, TLC

\* ------------------------------------------------------------------------
\* Bounds of the model
\* ------------------------------------------------------------------------
\* number of rows of db.webhooks
NumHooks == 2
\* largest max_retries a WebhookDispatcher is constructed with
MaxRetriesCfg == 3
\* number of gateway handlers that can be in flight at once
NumReq == 2
\* last instant of the clock
MaxTime == 86400
\* the viewer counter is kept within -MaxViewers..MaxViewers
MaxViewers == 2
\* number of requests that can be inside the guard's middlewares at once
NumGuardReq == 2
\* number of requests an ip sends at one instant of the guard's clock
MaxSent == 5
\* last instant of the guard's clock
MaxGuardTime == 3601
\* RateLimiter(requests_per_minute, requests_per_hour) and
\* SecurityMiddleware.suspicious_requests_threshold of the model; the
\* module's instances have 60, 1000 and 100
MinuteLimit == 2
HourLimit == 4
BurstThreshold == 3

\* ------------------------------------------------------------------------
\* Program constants
\* ------------------------------------------------------------------------
\* redis_client.expire(f"stream:{stream_key}:status", 86400)
SESSION_TTL == 86400
\* WebhookDispatcher.__init__(self, max_retries: int = 3, ...)
DefaultMaxRetries == 3
\* redis_client.expire(key_minute, 60), expire(key_hour, 3600)
MINUTE_TTL == 60
HOUR_TTL == 3600
\* redis_client.expire(f"suspicious:{client_ip}", 60)
BURST_TTL == 60
\* redis_client.setex(f"blocked_ip:{client_ip}", 3600, "1")
BLOCK_TTL == 3600
\* headers={"Retry-After": "60"}, headers={"Retry-After": "3600"}
RETRY_AFTER_MINUTE == 60
RETRY_AFTER_HOUR == 3600

VARIABLES
    \* ---- webhook delivery engine ----
    max_retries,     \* WebhookDispatcher.max_retries
    call,            \* a dispatch_event coroutine called on its own
    payload,         \* its payload argument: the fields in insertion order
    secret,          \* its secret argument
    headers,         \* its local dict of request headers
    posted,          \* the request its last POST sent
    responses,       \* what the subscriber answered to each POST of call
    db_webhooks,     \* db.webhooks: the subscription rows
    d_pc,            \* position of dispatch_stream_event
    d_call,          \* its arguments (app_id, event_type)
    webhooks,        \* its local list: the rows the find() returned
    tasks,           \* the dispatch_event coroutines handed to gather
    results,         \* what gather returned
    webhook_logs,    \* db.webhook_logs
    \* ---- ingest authorization gateway ----
    handler,         \* which handler module is deployed
    redis_available, \* main.py module flag
    now,             \* wall clock, seconds
    status,          \* redis stream:<key>:status
    expires,         \* expiry instant of stream:<key>:status, -1 = no TTL
    data,            \* redis stream:<key>:data
    viewers,         \* redis stream:<key>:viewers
    active_streams,  \* main.py in-memory dict, one per gateway instance
    loop,            \* handler that holds the event loop of an instance
    reqs,            \* the handlers in flight
    answered,        \* the answer given to the ingest edge in this step
    outbox,          \* the event the last step handed to the sinks
    last_event,      \* type of the last event handed to the sinks, per key
    bg_tasks,        \* main_integrated.py: tasks made by asyncio.create_task
    \* ---- rate/abuse guard ----
    g_client,        \* what the name redis_client is bound to
    store_up,        \* the store answers its commands
    clock,           \* wall clock of the guard's store, seconds
    blocked,         \* expiry instant of blocked_ip:<ip>, -1 = no such key
    suspicious,      \* suspicious:<ip>
    minute,          \* ratelimit:minute:<identifier>
    hour,            \* ratelimit:hour:<identifier>
    greqs,           \* the requests inside the middlewares
    g_answer,        \* the answer given to a request in this step
    api_key,         \* the X-API-Key header the client sends, or "none"
    passed           \* requests of an ip the route handler got at this instant

dispatchVars == <<max_retries, call, payload, secret, headers, posted,
                  responses, db_webhooks, d_pc, d_call, webhooks, tasks,
                  results, webhook_logs>>
gatewayVars == <<handler, redis_available, now, status, expires, data,
                 viewers, active_streams, loop, reqs, answered, outbox,
                 last_event, bg_tasks>>
guardVars == <<g_client, store_up, clock, blocked, suspicious, minute, hour,
               greqs, g_answer, api_key, passed>>
vars == <<dispatchVars, gatewayVars, guardVars>>

\* ========================================================================
\* Webhook delivery engine
\* ========================================================================
Hooks == 1..NumHooks
Apps == {"app1", "app2"}
EventTypes == {"stream.live", "stream.offline"}

\* what one HTTP POST to a subscriber can end in: a response with a status
\* code, an httpx.TimeoutException, or any other exception (connection error)
StatusCodes == {200, 203, 404, 500}
Responses == {[exc |-> "none", status_code |-> s] : s \in StatusCodes}
             \cup {[exc |-> "TimeoutException", status_code |-> 0],
                   [exc |-> "ConnectError", status_code |-> 0]}

\* a row of db.webhooks
HookRows == [app_id : Apps, is_active : BOOLEAN, events : SUBSET EventTypes]

\* response.status_code in [200, 201, 202, 204]
IsDelivered(resp) ==
    resp.exc = "none" /\ resp.status_code \in {200, 201, 202, 204}

IsClientError_wrongclass(resp) ==
    resp.exc = "none" /\ 500 <= resp.status_code /\ resp.status_code < 600

\* 400 <= response.status_code < 500
IsClientError(resp) ==
    resp.exc = "none" /\ 400 <= resp.status_code /\ resp.status_code < 500

WaitTime_offbyone(attempt) == 2 ^ attempt

\* wait_time = 2 ** (attempt - 1)
WaitTime(attempt) == 2 ^ (attempt - 1)

\* the dict dispatch_event returns; status_code 0 and error "" stand for a
\* key the dict does not have
Result(delivered, status_code, error, attempt) ==
    [delivered |-> delivered, status_code |-> status_code,
     error |-> error, attempt |-> attempt]

NoResult == Result(FALSE, 0, "", 0)

Exhausted_first(mr) == Result(FALSE, 0, "Maximum retries exceeded", 1)

\* the return after the for loop
Exhausted(mr) == Result(FALSE, 0, "Maximum retries exceeded", mr)

\* a dispatch_event coroutine that has not been called
NoTask == [hook |-> 0, pc |-> "idle", attempt |-> 0, posts |-> 0,
           sleeps |-> <<>>, result |-> NoResult]

\* a dispatch_event coroutine when it is started: the first POST is under
\* way, or the loop body never runs (max_retries = 0)
NewTask(hook, mr) ==
    [hook |-> hook,
     pc |-> IF mr >= 1 THEN "post" ELSE "done",
     attempt |-> IF mr >= 1 THEN 1 ELSE 0,
     posts |-> 0,
     sleeps |-> <<>>,
     result |-> IF mr >= 1 THEN NoResult ELSE Exhausted(mr)]

\* end of one pass of the loop body that did not return: back off and go
\* round again, or leave the loop
Backoff(t, mr) ==
    IF t.attempt < mr
    THEN [t EXCEPT !.pc = "sleep",
                   !.sleeps = Append(@, WaitTime(t.attempt))]
    ELSE [t EXCEPT !.pc = "done", !.result = Exhausted(mr)]

Finish(t, res) == [t EXCEPT !.pc = "done", !.result = res]

OnException_giveup(t, resp, mr) ==
    Finish(t, Result(FALSE, 0,
                     IF resp.exc = "TimeoutException"
                     THEN "Timeout after maximum retries" ELSE resp.exc,
                     t.attempt))

\* the two except clauses: return on the last attempt, else fall through to
\* the backoff
OnException(t, resp, mr) ==
    IF t.attempt = mr
    THEN Finish(t, Result(FALSE, 0,
                          IF resp.exc = "TimeoutException"
                          THEN "Timeout after maximum retries" ELSE resp.exc,
                          t.attempt))
    ELSE Backoff(t, mr)

\* one pass of the loop body of dispatch_event, from the POST's outcome
AfterPost(t0, resp, mr) ==
    LET t == [t0 EXCEPT !.posts = @ + 1] IN
    IF resp.exc # "none"
    THEN OnException(t, resp, mr)
    ELSE IF IsDelivered(resp)
    THEN Finish(t, Result(TRUE, resp.status_code, "", t.attempt))
    ELSE IF IsClientError(resp)
    THEN Finish(t, Result(FALSE, resp.status_code, "Client error", t.attempt))
    ELSE Backoff(t, mr)

\* the sleep is over: the next pass of the loop
NextAttempt(t) == [t EXCEPT !.pc = "post", !.attempt = @ + 1]

\* db.webhooks.find({"app_id": app_id, "is_active": True}): the ids of the
\* rows, in the collection's order
FindWebhooks(app_id) ==
    LET ids == [i \in Hooks |-> i]
        Match(i) == db_webhooks[i].app_id = app_id /\ db_webhooks[i].is_active
    IN SelectSeq(ids, Match)

Subscribed_anyevent(list, event_type) ==
    LET Match(i) == db_webhooks[i].is_active
    IN SelectSeq(list, Match)

\* the filter of dispatch_to_subscribers over the list it is given
Subscribed(list, event_type) ==
    LET Match(i) == event_type \in db_webhooks[i].events
                    /\ db_webhooks[i].is_active
    IN SelectSeq(list, Match)

\* the log rows written from gather's results: row i carries webhooks[i]
LogRows(list, res, event_type) ==
    [i \in 1..Len(res) |->
        [webhook_id |-> list[i], event_type |-> event_type,
         status_code |-> res[i].status_code, error |-> res[i].error,
         attempt |-> res[i].attempt, delivered |-> res[i].delivered]]

\* ---- the signature of a payload ------------------------------------------

\* a payload dict: its fields in insertion order
PayloadKeys == {"app_id", "data", "event"}
Field(k, v) == [key |-> k, value |-> v]
Payloads ==
    {p \in [1..3 -> {Field("app_id", "app1"), Field("data", "stream")}
                     \cup {Field("event", e) : e \in EventTypes}] :
        \A i, j \in 1..3 : i # j => p[i].key # p[j].key}

\* the secret argument: None, or a string
Secrets == {"None", "", "s1", "s2"}

\* the order of the keys as strings
KeyOrder(k) == CASE k = "app_id" -> 1 [] k = "data" -> 2 [] k = "event" -> 3

\* json.dumps(payload, sort_keys=sort_keys): the fields in the order they
\* are written to the text
JsonDumps(p, sort_keys) ==
    IF sort_keys
    THEN SortSeq(p, LAMBDA a, b : KeyOrder(a.key) < KeyOrder(b.key))
    ELSE p

\* hmac.new(key, msg, hashlib.sha256).hexdigest(): a digest stands for the
\* key and the message it was computed from
HmacSha256Hex(key, msg) == [key |-> key, msg |-> msg]
NoDigest == [key |-> "", msg |-> <<>>]

CreateSignature_unsorted(p, s) == HmacSha256Hex(s, JsonDumps(p, FALSE))

\* create_signature(payload, secret)
CreateSignature(p, s) == HmacSha256Hex(s, JsonDumps(p, TRUE))

\* the headers dict of dispatch_event; X-RealCast-Signature is
\* f"sha256={signature}" and is there only "if secret"
NoHeaders == [signed |-> FALSE, scheme |-> "", digest |-> NoDigest]
Headers(p, s) ==
    IF s \notin {"None", ""}
    THEN [signed |-> TRUE, scheme |-> "sha256=",
          digest |-> CreateSignature(p, s)]
    ELSE NoHeaders

\* self.client.post(webhook_url, json=payload, headers=headers): the body is
\* the client's own json.dumps of the dict, keys in insertion order
NoRequest == [sent |-> FALSE, headers |-> NoHeaders, body |-> <<>>]
Request(p, hd) == [sent |-> TRUE, headers |-> hd, body |-> JsonDumps(p, FALSE)]

\* the delivery engine at rest, as the module constructs it
DispatchQuiet ==
    /\ max_retries = DefaultMaxRetries
    /\ call = NoTask
    /\ payload = <<>>
    /\ secret = "None"
    /\ headers = NoHeaders
    /\ posted = NoRequest
    /\ responses = <<>>
    /\ db_webhooks = [h \in Hooks |->
                        [app_id |-> "app1", is_active |-> TRUE, events |-> {}]]
    /\ d_pc = "idle"
    /\ d_call = [app_id |-> "app1", event_type |-> "stream.live"]
    /\ webhooks = <<>>
    /\ tasks = <<>>
    /\ results = <<>>
    /\ webhook_logs = <<>>

\* ---- dispatch_event called on its own -----------------------------------

DispatchInit ==
    /\ max_retries \in 0..MaxRetriesCfg
    /\ call = NoTask
    /\ payload = <<>>
    /\ secret = "None"
    /\ headers = NoHeaders
    /\ posted = NoRequest
    /\ responses = <<>>
    /\ db_webhooks = [h \in Hooks |->
                        [app_id |-> "app1", is_active |-> TRUE, events |-> {}]]
    /\ d_pc = "idle"
    /\ d_call = [app_id |-> "app1", event_type |-> "stream.live"]
    /\ webhooks = <<>>
    /\ tasks = <<>>
    /\ results = <<>>
    /\ webhook_logs = <<>>

\* dispatch_event(webhook_url, event_type, payload, secret) is called: the
\* headers are made and the first POST is sent
DispatchEvent(h, p, s) ==
    /\ call.pc = "idle"
    /\ call' = NewTask(h, max_retries)
    /\ payload' = p
    /\ secret' = s
    /\ headers' = Headers(p, s)
    /\ posted' = IF call'.pc = "post" THEN Request(p, headers') ELSE posted
    /\ UNCHANGED <<gatewayVars, guardVars>>
    /\ UNCHANGED <<max_retries, responses, db_webhooks, d_pc, d_call,
                   webhooks, tasks, results, webhook_logs>>

\* the POST ends
Attempt(resp) ==
    /\ call.pc = "post"
    /\ call' = AfterPost(call, resp, max_retries)
    /\ responses' = Append(responses, resp)
    /\ UNCHANGED <<gatewayVars, guardVars>>
    /\ UNCHANGED <<payload, secret, headers, posted>>
    /\ UNCHANGED <<max_retries, db_webhooks, d_pc, d_call, webhooks, tasks,
                   results, webhook_logs>>

\* asyncio.sleep(wait_time) ends and the next POST is sent
Retry ==
    /\ call.pc = "sleep"
    /\ call' = NextAttempt(call)
    /\ posted' = Request(payload, headers)
    /\ UNCHANGED <<payload, secret, headers>>
    /\ UNCHANGED <<gatewayVars, guardVars>>
    /\ UNCHANGED <<max_retries, responses, db_webhooks, d_pc, d_call,
                   webhooks, tasks, results, webhook_logs>>

NextDispatch ==
    \/ \E h \in Hooks, p \in Payloads, s \in Secrets : DispatchEvent(h, p, s)
    \/ \E resp \in Responses : Attempt(resp)
    \/ Retry

\* ---- dispatch_stream_event: the fan-out ----------------------------------

\* dispatch_stream_event goes through the module's instance,
\* webhook_dispatcher = WebhookDispatcher(), which has the default max_retries
FanoutInit ==
    /\ max_retries = DefaultMaxRetries
    /\ call = NoTask
    /\ payload = <<>>
    /\ secret = "None"
    /\ headers = NoHeaders
    /\ posted = NoRequest
    /\ responses = <<>>
    /\ db_webhooks \in [Hooks -> HookRows]
    /\ d_pc = "idle"
    /\ d_call = [app_id |-> "app1", event_type |-> "stream.live"]
    /\ webhooks = <<>>
    /\ tasks = <<>>
    /\ results = <<>>
    /\ webhook_logs = <<>>

\* dispatch_stream_event up to the gather inside dispatch_to_subscribers
DispatchStreamEvent(app_id, event_type) ==
    /\ d_pc = "idle"
    /\ d_call' = [app_id |-> app_id, event_type |-> event_type]
    /\ LET found == FindWebhooks(app_id)
           subs == Subscribed(found, event_type)
       IN /\ webhooks' = found
          /\ tasks' = [i \in 1..Len(subs) |-> NewTask(subs[i], max_retries)]
          /\ d_pc' = IF found = <<>> THEN "done"
                     ELSE IF subs = <<>> THEN "log" ELSE "gather"
    /\ UNCHANGED <<payload, secret, headers, posted>>
    /\ UNCHANGED <<gatewayVars, guardVars>>
    /\ UNCHANGED <<max_retries, call, responses, db_webhooks, results,
                   webhook_logs>>

CanResume_blocking(i) ==
    \A j \in DOMAIN tasks : j # i => tasks[j].pc # "sleep"

\* await self.client.post(...) and await asyncio.sleep(wait_time) suspend
\* only the coroutine that awaits: under gather a coroutine goes on as soon
\* as its own await is over, whatever the other coroutines are doing
CanResume(i) == TRUE

\* the POST of task i ends
Post(i, resp) ==
    /\ d_pc = "gather"
    /\ i \in DOMAIN tasks
    /\ tasks[i].pc = "post"
    /\ CanResume(i)
    /\ tasks' = [tasks EXCEPT ![i] = AfterPost(tasks[i], resp, max_retries)]
    /\ UNCHANGED <<payload, secret, headers, posted>>
    /\ UNCHANGED <<gatewayVars, guardVars>>
    /\ UNCHANGED <<max_retries, call, responses, db_webhooks, d_pc, d_call,
                   webhooks, results, webhook_logs>>

\* asyncio.sleep(wait_time) of task i ends
Wake(i) ==
    /\ d_pc = "gather"
    /\ i \in DOMAIN tasks
    /\ tasks[i].pc = "sleep"
    /\ CanResume(i)
    /\ tasks' = [tasks EXCEPT ![i] = NextAttempt(tasks[i])]
    /\ UNCHANGED <<payload, secret, headers, posted>>
    /\ UNCHANGED <<gatewayVars, guardVars>>
    /\ UNCHANGED <<max_retries, call, responses, db_webhooks, d_pc, d_call,
                   webhooks, results, webhook_logs>>

\* asyncio.gather returns once every task has returned
Gathered ==
    /\ d_pc = "gather"
    /\ \A i \in DOMAIN tasks : tasks[i].pc = "done"
    /\ results' = [i \in DOMAIN tasks |-> tasks[i].result]
    /\ d_pc' = "log"
    /\ UNCHANGED <<payload, secret, headers, posted>>
    /\ UNCHANGED <<gatewayVars, guardVars>>
    /\ UNCHANGED <<max_retries, call, responses, db_webhooks, d_call,
                   webhooks, tasks, webhook_logs>>

\* the loop that inserts the log rows
LogResults ==
    /\ d_pc = "log"
    /\ webhook_logs' = webhook_logs \o LogRows(webhooks, results,
                                               d_call.event_type)
    /\ d_pc' = "done"
    /\ UNCHANGED <<payload, secret, headers, posted>>
    /\ UNCHANGED <<gatewayVars, guardVars>>
    /\ UNCHANGED <<max_retries, call, responses, db_webhooks, d_call,
                   webhooks, tasks, results>>

NextFanout ==
    \/ \E a \in Apps, e \in EventTypes : DispatchStreamEvent(a, e)
    \/ \E i \in Hooks, resp \in Responses : Post(i, resp)
    \/ \E i \in Hooks : Wake(i)
    \/ Gathered
    \/ LogResults

\* ========================================================================
\* Ingest authorization gateway
\* ========================================================================
\* One stream key: every store key and dict entry of the handlers is indexed
\* by the stream key alone.  stream_stats, the observability counters that no
\* decision reads, are left out.
Keys == {"k1"}
Insts == {1, 2}
Reqs == 1..NumReq

\* what the call to the stream-validation collaborator can end in: 200 with
\* the stream's info, 200 with an empty body, 404, another status, or a
\* transport error (httpx.RequestError: connection failure or timeout)
Validations == {"valid", "empty_body", "not_found", "error_status",
                "request_error"}

\* a handler slot without a handler in flight
NoReq == [kind |-> "none", key |-> "", inst |-> 0, pc |-> "none",
          vres |-> "", found |-> FALSE, started_at |-> -1]

\* a handler at its first await
NewReq(kind, k, i, pc) ==
    [NoReq EXCEPT !.kind = kind, !.key = k, !.inst = i, !.pc = pc]

\* an answer to the ingest edge: the endpoint, the status code, what
\* the validation call had ended in, whether publish_done found a session,
\* and how the sink call the handler had awaited ended ("none": it awaited
\* none)
NoAnswer == [kind |-> "none", key |-> "", resp |-> 0, vres |-> "",
             found |-> FALSE, sink |-> "none"]
Answer(kind, k, code, vres, found) ==
    [kind |-> kind, key |-> k, resp |-> code, vres |-> vres, found |-> found,
     sink |-> "none"]

\* the value of stream:<key>:data and of active_streams[key]
NoData == [present |-> FALSE, started_at |-> -1, client_ip |-> 0]
StreamData(started_at, client_ip) ==
    [present |-> TRUE, started_at |-> started_at, client_ip |-> client_ip]

\* a lifecycle event handed to the notification sinks; duration -1 is "N/A"
NoEvent == [event_type |-> "none", key |-> "", duration |-> -1]
Event(event_type, k, duration) ==
    [event_type |-> event_type, key |-> k, duration |-> duration]

IsActive_never(i, k) == FALSE

\* redis_client.get(f"stream:{stream_key}:status") == b"live", or
\* stream_key in active_streams
IsActive(i, k) ==
    IF redis_available THEN status[k] = "live"
    ELSE active_streams[i][k].present

\* except Exception in main_integrated.py: an HTTPException raised inside the
\* outer try is caught there and answered as 500
OuterExcept(raised) == 500

\* coroutine of notify_stream_event made by asyncio.create_task
BgTask(event_type, k) == [event_type |-> event_type, key |-> k,
                          pc |-> "realtime"]

GatewayInit ==
    /\ handler \in {"main", "integrated"}
    /\ redis_available \in BOOLEAN
    /\ handler = "integrated" => ~redis_available
    /\ now = 0
    /\ status = [k \in Keys |-> "nil"]
    /\ expires = [k \in Keys |-> -1]
    /\ data = [k \in Keys |-> NoData]
    /\ viewers = [k \in Keys |-> 0]
    /\ active_streams = [i \in Insts |-> [k \in Keys |-> NoData]]
    /\ loop = [i \in Insts |-> 0]
    /\ reqs = [r \in Reqs |-> NoReq]
    /\ answered = NoAnswer
    /\ outbox = NoEvent
    /\ last_event = [k \in Keys |-> "none"]
    /\ bg_tasks = <<>>

GatewayQuiet ==
    /\ handler = "main"
    /\ redis_available = TRUE
    /\ now = 0
    /\ status = [k \in Keys |-> "nil"]
    /\ expires = [k \in Keys |-> -1]
    /\ data = [k \in Keys |-> NoData]
    /\ viewers = [k \in Keys |-> 0]
    /\ active_streams = [i \in Insts |-> [k \in Keys |-> NoData]]
    /\ loop = [i \in Insts |-> 0]
    /\ reqs = [r \in Reqs |-> NoReq]
    /\ answered = NoAnswer
    /\ outbox = NoEvent
    /\ last_event = [k \in Keys |-> "none"]
    /\ bg_tasks = <<>>

\* the handler in slot r is between its first await and its answer
InFlight(r) == reqs[r].kind # "none"

\* a handler that has to await takes the first free slot; the tasks it may
\* make are kept within the bounds of the model
FreeSlot(r) ==
    /\ ~InFlight(r)
    /\ \A q \in Reqs : q < r => InFlight(q)
    /\ Len(bg_tasks) + Cardinality({q \in Reqs : InFlight(q)}) < NumReq

\* the handler of r may run: the event loop of its instance is free, or r is
\* in the middle of a stretch of code without await
CanRun(r) == loop[reqs[r].inst] \in {0, r}

\* the handler returns: its frame is gone, the edge has the answer
Return(r) == [reqs EXCEPT ![r] = NoReq]

\* what validate_stream_key returned, as stream_info keeps it: the
\* collaborator's answer, or {"validated": False} when the call failed
StreamInfo(v) == IF v = "valid" THEN "valid" ELSE "fail_open"

\* auth_publish of either module up to the await of the validation call
CallPublish(r, k, i) ==
    /\ FreeSlot(r)
    /\ reqs' = [reqs EXCEPT ![r] = NewReq("publish", k, i, "validate")]
    /\ outbox' = NoEvent
    /\ UNCHANGED <<dispatchVars, guardVars>>
    /\ answered' = NoAnswer
    /\ UNCHANGED <<handler, redis_available, now, status, expires, data,
                   viewers, active_streams, loop, last_event, bg_tasks>>

\* ---- main.py ----------------------------------------------------------

\* auth_publish from the end of validate_stream_key to the registry check:
\* deny, or go on to store the session
Publish(r, v) ==
    LET k == reqs[r].key
        i == reqs[r].inst
    IN
    /\ handler = "main"
    /\ reqs[r].pc = "validate"
    /\ CanRun(r)
    /\ IF v \in {"not_found", "empty_body"}
       THEN /\ reqs' = Return(r)
            /\ answered' = Answer("publish", k, 403, v, FALSE)
            /\ outbox' = NoEvent
            /\ UNCHANGED <<active_streams, loop, last_event>>
       ELSE IF IsActive(i, k)
       THEN /\ reqs' = Return(r)
            /\ answered' = Answer("publish", k, 409, StreamInfo(v), FALSE)
            /\ outbox' = NoEvent
            /\ UNCHANGED <<active_streams, loop, last_event>>
       ELSE IF redis_available
       THEN /\ reqs' = [reqs EXCEPT ![r].vres = StreamInfo(v),
                                    ![r].started_at = now,
                                    ![r].pc = "set_status"]
            /\ loop' = [loop EXCEPT ![i] = r]
            /\ outbox' = NoEvent
            /\ answered' = NoAnswer
            /\ UNCHANGED <<active_streams, last_event>>
       ELSE /\ reqs' = [reqs EXCEPT ![r].vres = StreamInfo(v),
                                    ![r].started_at = now,
                                    ![r].pc = "notify"]
            /\ active_streams' = [active_streams EXCEPT
                                     ![i][k] = StreamData(now, r)]
            /\ outbox' = Event("stream.live", k, -1)
            /\ last_event' = [last_event EXCEPT ![k] = "stream.live"]
            /\ answered' = NoAnswer
            /\ UNCHANGED <<loop>>
    /\ UNCHANGED <<dispatchVars, guardVars>>
    /\ UNCHANGED <<handler, redis_available, now, status, expires, data,
                   viewers, bg_tasks>>

\* redis_client.set(f"stream:{stream_key}:status", "live"); SET drops a TTL
SetStatus(r) ==
    /\ handler = "main"
    /\ reqs[r].pc = "set_status"
    /\ status' = [status EXCEPT ![reqs[r].key] = "live"]
    /\ expires' = [expires EXCEPT ![reqs[r].key] = -1]
    /\ reqs' = [reqs EXCEPT ![r].pc = "set_data"]
    /\ outbox' = NoEvent
    /\ UNCHANGED <<dispatchVars, guardVars>>
    /\ answered' = NoAnswer
    /\ UNCHANGED <<handler, redis_available, now, data, viewers,
                   active_streams, loop, last_event, bg_tasks>>

\* redis_client.set(f"stream:{stream_key}:data", str(stream_data))
SetData(r) ==
    /\ handler = "main"
    /\ reqs[r].pc = "set_data"
    /\ data' = [data EXCEPT ![reqs[r].key] = StreamData(reqs[r].started_at, r)]
    /\ reqs' = [reqs EXCEPT ![r].pc = "expire"]
    /\ outbox' = NoEvent
    /\ UNCHANGED <<dispatchVars, guardVars>>
    /\ answered' = NoAnswer
    /\ UNCHANGED <<handler, redis_available, now, status, expires, viewers,
                   active_streams, loop, last_event, bg_tasks>>

\* redis_client.expire(status key, 86400) and the call of
\* notify_control_plane("stream.live", ...), where the handler awaits
Expire(r) ==
    LET k == reqs[r].key
        i == reqs[r].inst
    IN
    /\ handler = "main"
    /\ reqs[r].pc = "expire"
    /\ expires' = IF status[k] = "live"
                  THEN [expires EXCEPT ![k] = now + SESSION_TTL]
                  ELSE expires
    /\ outbox' = Event("stream.live", k, -1)
    /\ last_event' = [last_event EXCEPT ![k] = "stream.live"]
    /\ loop' = [loop EXCEPT ![i] = 0]
    /\ reqs' = [reqs EXCEPT ![r].pc = "notify"]
    /\ UNCHANGED <<dispatchVars, guardVars>>
    /\ answered' = NoAnswer
    /\ UNCHANGED <<handler, redis_available, now, status, data, viewers,
                   active_streams, bg_tasks>>

AfterNotify_propagates(ok) == IF ok THEN 200 ELSE 500

\* the status code of the handler after notify_control_plane has returned:
\* an exception of the POST is logged inside notify_control_plane
AfterNotify(ok) == 200

\* notify_control_plane returns (its POST succeeded, or it failed and the
\* exception was logged) and the handler answers
Notified(r, ok) ==
    /\ handler = "main"
    /\ reqs[r].pc = "notify"
    /\ CanRun(r)
    /\ reqs' = Return(r)
    /\ answered' = [Answer(reqs[r].kind, reqs[r].key, AfterNotify(ok),
                           reqs[r].vres, reqs[r].found)
                      EXCEPT !.sink = IF ok THEN "ok" ELSE "failed"]
    /\ outbox' = NoEvent
    /\ UNCHANGED <<dispatchVars, guardVars>>
    /\ UNCHANGED <<handler, redis_available, now, status, expires, data,
                   viewers, active_streams, loop, last_event, bg_tasks>>

\* auth_publish_done, redis: stream_data = redis_client.get(data key)
PdGet(r, k, i) ==
    /\ handler = "main"
    /\ redis_available
    /\ FreeSlot(r)
    /\ loop[i] = 0
    /\ loop' = [loop EXCEPT ![i] = r]
    /\ reqs' = [reqs EXCEPT ![r] =
                  [NewReq("publish_done", k, i, "pd_del_status")
                      EXCEPT !.found = data[k].present]]
    /\ outbox' = NoEvent
    /\ UNCHANGED <<dispatchVars, guardVars>>
    /\ answered' = NoAnswer
    /\ UNCHANGED <<handler, redis_available, now, status, expires, data,
                   viewers, active_streams, last_event, bg_tasks>>

DelStatus_keeps(k) == status

DelStatus_sets(k) == [status EXCEPT ![k] = "live"]

\* redis_client.delete(f"stream:{stream_key}:status")
DelStatus(k) == [status EXCEPT ![k] = "nil"]

PdDelStatus(r) ==
    /\ handler = "main"
    /\ reqs[r].pc = "pd_del_status"
    /\ status' = DelStatus(reqs[r].key)
    /\ expires' = [k \in Keys |-> IF status'[k] = "nil" THEN -1
                                  ELSE expires[k]]
    /\ reqs' = [reqs EXCEPT ![r].pc = "pd_del_data"]
    /\ outbox' = NoEvent
    /\ UNCHANGED <<dispatchVars, guardVars>>
    /\ answered' = NoAnswer
    /\ UNCHANGED <<handler, redis_available, now, data, viewers,
                   active_streams, loop, last_event, bg_tasks>>

\* redis_client.delete(f"stream:{stream_key}:data") and the call of
\* notify_control_plane("stream.offline", ...) with duration "N/A"
PdDelData(r) ==
    LET k == reqs[r].key IN
    /\ handler = "main"
    /\ reqs[r].pc = "pd_del_data"
    /\ data' = [data EXCEPT ![k] = NoData]
    /\ outbox' = Event("stream.offline", k, -1)
    /\ last_event' = [last_event EXCEPT ![k] = "stream.offline"]
    /\ loop' = [loop EXCEPT ![reqs[r].inst] = 0]
    /\ reqs' = [reqs EXCEPT ![r].pc = "notify"]
    /\ UNCHANGED <<dispatchVars, guardVars>>
    /\ answered' = NoAnswer
    /\ UNCHANGED <<handler, redis_available, now, status, expires, viewers,
                   active_streams, bg_tasks>>

\* auth_publish_done, in-memory: the duration when the key is in
\* active_streams, del active_streams[stream_key], and the call of
\* notify_control_plane("stream.offline", ...)
PdMemory(r, k, i) ==
    LET d == IF active_streams[i][k].present
             THEN now - active_streams[i][k].started_at ELSE -1
    IN
    /\ handler = "main"
    /\ ~redis_available
    /\ FreeSlot(r)
    /\ loop[i] = 0
    /\ active_streams' = [active_streams EXCEPT ![i][k] = NoData]
    /\ outbox' = Event("stream.offline", k, d)
    /\ last_event' = [last_event EXCEPT ![k] = "stream.offline"]
    /\ reqs' = [reqs EXCEPT ![r] =
                  [NewReq("publish_done", k, i, "notify")
                      EXCEPT !.found = active_streams[i][k].present]]
    /\ UNCHANGED <<dispatchVars, guardVars>>
    /\ answered' = NoAnswer
    /\ UNCHANGED <<handler, redis_available, now, status, expires, data,
                   viewers, loop, bg_tasks>>

IncrViewers_set(k) == [viewers EXCEPT ![k] = 1]

\* redis_client.incr(f"stream:{stream_key}:viewers"): one command of the
\* store, which creates the counter at 0 when the key is absent
IncrViewers(k) == [viewers EXCEPT ![k] = @ + 1]

\* redis_client.decr(f"stream:{stream_key}:viewers")
DecrViewers(k) == [viewers EXCEPT ![k] = @ - 1]

\* auth_play: the counter is incremented when Redis is in use; the counter
\* is kept within the bounds of the model
Play(k, i) ==
    /\ handler = "main"
    /\ loop[i] = 0
    /\ viewers[k] < MaxViewers
    /\ viewers' = IF redis_available THEN IncrViewers(k) ELSE viewers
    /\ answered' = Answer("play", k, 200, "", FALSE)
    /\ outbox' = NoEvent
    /\ UNCHANGED <<dispatchVars, guardVars>>
    /\ UNCHANGED <<handler, redis_available, now, status, expires, data,
                   active_streams, loop, reqs, last_event, bg_tasks>>

\* auth_play_done: the counter is decremented when Redis is in use
PlayDone(k, i) ==
    /\ handler = "main"
    /\ loop[i] = 0
    /\ viewers[k] > 0 - MaxViewers
    /\ viewers' = IF redis_available THEN DecrViewers(k) ELSE viewers
    /\ answered' = Answer("play_done", k, 200, "", FALSE)
    /\ outbox' = NoEvent
    /\ UNCHANGED <<dispatchVars, guardVars>>
    /\ UNCHANGED <<handler, redis_available, now, status, expires, data,
                   active_streams, loop, reqs, last_event, bg_tasks>>

\* ---- main_integrated.py -----------------------------------------------

\* auth_publish: the answer of POST /streams/validate
IntPublish(r, v) ==
    LET k == reqs[r].key IN
    /\ handler = "integrated"
    /\ reqs[r].pc = "validate"
    /\ reqs' = Return(r)
    /\ IF v \in {"valid", "empty_body"}
       THEN /\ answered' = Answer("publish", k, 200, v, FALSE)
            /\ outbox' = Event("stream.live", k, -1)
            /\ last_event' = [last_event EXCEPT ![k] = "stream.live"]
            /\ bg_tasks' = Append(bg_tasks, BgTask("stream.live", k))
       ELSE IF v = "request_error"
       THEN /\ answered' = Answer("publish", k, OuterExcept(503), v, FALSE)
            /\ outbox' = NoEvent
            /\ UNCHANGED <<last_event, bg_tasks>>
       ELSE /\ answered' = Answer("publish", k, OuterExcept(403), v, FALSE)
            /\ outbox' = NoEvent
            /\ UNCHANGED <<last_event, bg_tasks>>
    /\ UNCHANGED <<dispatchVars, guardVars>>
    /\ UNCHANGED <<handler, redis_available, now, status, expires, data,
                   viewers, active_streams, loop>>

\* auth_publish_done up to the await of POST /streams/end
IntCallPublishDone(r, k, i) ==
    /\ handler = "integrated"
    /\ FreeSlot(r)
    /\ reqs' = [reqs EXCEPT ![r] = NewReq("publish_done", k, i, "end")]
    /\ outbox' = NoEvent
    /\ UNCHANGED <<dispatchVars, guardVars>>
    /\ answered' = NoAnswer
    /\ UNCHANGED <<handler, redis_available, now, status, expires, data,
                   viewers, active_streams, loop, last_event, bg_tasks>>

\* auth_publish_done: the answer of POST /streams/end
IntPublishDone(r, v) ==
    LET k == reqs[r].key IN
    /\ handler = "integrated"
    /\ reqs[r].pc = "end"
    /\ v \in {"valid", "error_status", "request_error"}
    /\ reqs' = Return(r)
    /\ answered' = Answer("publish_done", k, 200, v, v = "valid")
    /\ IF v = "valid"
       THEN /\ outbox' = Event("stream.offline", k, -1)
            /\ last_event' = [last_event EXCEPT ![k] = "stream.offline"]
            /\ bg_tasks' = Append(bg_tasks, BgTask("stream.offline", k))
       ELSE /\ outbox' = NoEvent
            /\ UNCHANGED <<last_event, bg_tasks>>
    /\ UNCHANGED <<dispatchVars, guardVars>>
    /\ UNCHANGED <<handler, redis_available, now, status, expires, data,
                   viewers, active_streams, loop>>

\* auth_play and auth_play_done: answer 200
IntPlay(kind, k, i) ==
    /\ handler = "integrated"
    /\ kind \in {"play", "play_done"}
    /\ answered' = Answer(kind, k, 200, "", FALSE)
    /\ outbox' = NoEvent
    /\ UNCHANGED <<dispatchVars, guardVars>>
    /\ UNCHANGED <<handler, redis_available, now, status, expires, data,
                   viewers, active_streams, loop, reqs, last_event, bg_tasks>>

\* a sequence without its t-th element
Without(s, t) == [j \in 1..(Len(s) - 1) |-> IF j < t THEN s[j] ELSE s[j + 1]]

\* notify_stream_event: the POST to the real-time server ends; an exception
\* is logged and ends the coroutine
BgRealtime(t, ok) ==
    /\ t \in DOMAIN bg_tasks
    /\ bg_tasks[t].pc = "realtime"
    /\ bg_tasks' = IF ok THEN [bg_tasks EXCEPT ![t].pc = "dispatch"]
                   ELSE Without(bg_tasks, t)
    /\ outbox' = NoEvent
    /\ UNCHANGED <<dispatchVars, guardVars>>
    /\ answered' = NoAnswer
    /\ UNCHANGED <<handler, redis_available, now, status, expires, data,
                   viewers, active_streams, loop, reqs, last_event>>

\* notify_stream_event: the POST to /webhooks/dispatch ends and the
\* coroutine with it
BgDispatch(t, ok) ==
    /\ t \in DOMAIN bg_tasks
    /\ bg_tasks[t].pc = "dispatch"
    /\ bg_tasks' = Without(bg_tasks, t)
    /\ outbox' = NoEvent
    /\ UNCHANGED <<dispatchVars, guardVars>>
    /\ answered' = NoAnswer
    /\ UNCHANGED <<handler, redis_available, now, status, expires, data,
                   viewers, active_streams, loop, reqs, last_event>>

\* ---- the gateway process ----------------------------------------------

\* the process of instance i stops while it handles requests (it is killed,
\* or its host fails): its handlers are gone without an answer; nothing in
\* the code undoes what they had written to the store.  In in-memory mode
\* the sessions go with the process, which is a new start of the gateway.
Crash(i) ==
    /\ handler = "main"
    /\ redis_available
    /\ \E r \in Reqs : InFlight(r) /\ reqs[r].inst = i
    /\ reqs' = [r \in Reqs |-> IF reqs[r].inst = i THEN NoReq ELSE reqs[r]]
    /\ loop' = [loop EXCEPT ![i] = 0]
    /\ answered' = NoAnswer
    /\ outbox' = NoEvent
    /\ UNCHANGED <<dispatchVars, guardVars>>
    /\ UNCHANGED <<handler, redis_available, now, status, expires, data,
                   viewers, active_streams, last_event, bg_tasks>>

\* ---- the store's clock -------------------------------------------------

\* time passes; redis drops the status keys whose TTL has run out.  The
\* clock is followed over the instants n * TTL and n * TTL + 1.
Tick(d) ==
    /\ now + d <= MaxTime
    /\ d = 1 => now % SESSION_TTL = 0
    /\ now' = now + d
    /\ status' = [k \in Keys |->
                    IF expires[k] # -1 /\ expires[k] <= now + d
                    THEN "nil" ELSE status[k]]
    /\ expires' = [k \in Keys |->
                    IF expires[k] # -1 /\ expires[k] <= now + d
                    THEN -1 ELSE expires[k]]
    /\ outbox' = NoEvent
    /\ UNCHANGED <<dispatchVars, guardVars>>
    /\ answered' = NoAnswer
    /\ UNCHANGED <<handler, redis_available, data, viewers, active_streams,
                   loop, reqs, last_event, bg_tasks>>

Next ==
    \/ \E r \in Reqs, k \in Keys, i \in Insts : CallPublish(r, k, i)
    \/ \E r \in Reqs, v \in Validations : Publish(r, v)
    \/ \E r \in Reqs : SetStatus(r)
    \/ \E r \in Reqs : SetData(r)
    \/ \E r \in Reqs : Expire(r)
    \/ \E r \in Reqs, ok \in BOOLEAN : Notified(r, ok)
    \/ \E r \in Reqs, k \in Keys, i \in Insts : PdGet(r, k, i)
    \/ \E r \in Reqs : PdDelStatus(r)
    \/ \E r \in Reqs : PdDelData(r)
    \/ \E r \in Reqs, k \in Keys, i \in Insts : PdMemory(r, k, i)
    \/ \E k \in Keys, i \in Insts : Play(k, i)
    \/ \E k \in Keys, i \in Insts : PlayDone(k, i)
    \/ \E r \in Reqs, v \in Validations : IntPublish(r, v)
    \/ \E r \in Reqs, k \in Keys, i \in Insts : IntCallPublishDone(r, k, i)
    \/ \E r \in Reqs, v \in Validations : IntPublishDone(r, v)
    \/ \E kind \in {"play", "play_done"}, k \in Keys, i \in Insts :
          IntPlay(kind, k, i)
    \/ \E t \in Reqs, ok \in BOOLEAN : BgRealtime(t, ok)
    \/ \E t \in Reqs, ok \in BOOLEAN : BgDispatch(t, ok)
    \/ \E i \in Insts : Crash(i)
    \/ \E d \in {1, SESSION_TTL} : Tick(d)

\* ========================================================================
\* Rate/abuse guard
\* ========================================================================
\* backend/middleware/security.py and rate_limiter.py.  No module of the
\* backend registers the two middlewares; they are chained in the order the
\* specification gives (block check, burst check, rate limits, business
\* logic): call_next of security_check_middleware is rate_limit_middleware.
Ips == {"ip1"}
ApiKeys == {"none", "key1"}
GReqs == 1..NumGuardReq

\* identifier = hashlib.sha256(api_key.encode()).hexdigest()[:16] when the
\* request has an X-API-Key header, else request.client.host
Identifier(ip, key) == IF key # "none" THEN "h_key1" ELSE ip
Ids == {Identifier(ip, k) : ip \in Ips, k \in ApiKeys}

\* what the name redis_client is bound to: the synchronous client that
\* utils/redis_client.py makes, None when the connection failed at import,
\* or a client whose commands return awaitables, which is what the await
\* expressions of the two middlewares are written for
Clients == {"sync", "None", "awaitable"}

\* a counter key of the store: count 0 is an absent key, exp -1 is no TTL;
\* born is the instant at which the key was created, which the store does
\* not keep and no command reads
NoKey == [count |-> 0, exp |-> -1, born |-> -1]

\* a request between its arrival and its answer; count is the local of
\* detect_suspicious_activity
NoGReq == [ip |-> "", id |-> "", pc |-> "none", count |-> 0]

\* the answer to a request: the status code, the Retry-After header (0 when
\* there is none) and the stage that produced the answer
NoGAnswer == [ip |-> "", id |-> "", code |-> 0, retry_after |-> 0,
              stage |-> "none"]
GAnswer(q, code, retry_after, stage) ==
    [ip |-> q.ip, id |-> q.id, code |-> code, retry_after |-> retry_after,
     stage |-> stage]

GuardInit ==
    /\ g_client \in Clients
    /\ store_up = TRUE
    /\ clock = 0
    /\ blocked = [ip \in Ips |-> -1]
    /\ suspicious = [ip \in Ips |-> NoKey]
    /\ minute = [id \in Ids |-> NoKey]
    /\ hour = [id \in Ids |-> NoKey]
    /\ greqs = [r \in GReqs |-> NoGReq]
    /\ g_answer = NoGAnswer
    /\ api_key \in ApiKeys
    /\ passed = [ip \in Ips |-> 0]

GuardQuiet ==
    /\ g_client = "sync"
    /\ store_up = TRUE
    /\ clock = 0
    /\ blocked = [ip \in Ips |-> -1]
    /\ suspicious = [ip \in Ips |-> NoKey]
    /\ minute = [id \in Ids |-> NoKey]
    /\ hour = [id \in Ids |-> NoKey]
    /\ greqs = [r \in GReqs |-> NoGReq]
    /\ g_answer = NoGAnswer
    /\ api_key \in ApiKeys
    /\ passed = [ip \in Ips |-> 0]

\* a store command raises before it reaches the store: AttributeError on
\* None, redis.ConnectionError when the store is down
Unavailable == g_client = "None" \/ ~store_up

\* "await redis_client.<command>(...)" raises: the command failed, or it ran
\* and returned a str, an int or None, which await rejects with TypeError
Raises == Unavailable \/ g_client = "sync"

\* call_next of security_check_middleware is rate_limit_middleware, whose
\* call_next is the route handler
SecurityCallNext == "rl_minute"
RateLimitCallNext == "business"

AfterBlockCheck_skipburst == "rl_minute"

\* security_check_middleware: after check_blocked_ip has returned comes
\* detect_suspicious_activity
AfterBlockCheck == "s_incr"

ExceptNext_failclosed(pc) == "reject"

\* where a request goes when a store call of a stage raised: the except
\* Exception of security_check_middleware calls call_next, the one of
\* detect_suspicious_activity logs and returns, the one of check_rate_limit
\* returns True
ExceptNext(pc) ==
    IF pc \in {"block", "s_incr", "s_expire", "s_block"}
    THEN SecurityCallNext
    ELSE RateLimitCallNext

\* redis INCR: an absent key starts at 1 without TTL, a present one keeps its
\* TTL
Incr(k) == [k EXCEPT !.count = @ + 1,
                     !.born = IF k.count = 0 THEN clock ELSE @]

Expire_noop(k, ttl) == k

\* redis EXPIRE key ttl: nothing when the key is absent
Expire_(k, ttl) == IF k.count = 0 THEN k ELSE [k EXCEPT !.exp = clock + ttl]

\* the request of slot r goes on to the next store call, or is rejected by
\* an except clause that fails closed
GoOn(r, pc) ==
    IF pc = "reject"
    THEN /\ greqs' = [greqs EXCEPT ![r] = NoGReq]
         /\ g_answer' = GAnswer(greqs[r], 500, 0, greqs[r].pc)
    ELSE /\ greqs' = [greqs EXCEPT ![r].pc = pc]
         /\ g_answer' = NoGAnswer

\* raise HTTPException(status_code, headers): both middlewares re-raise it
Reject(r, code, retry_after, stage) ==
    /\ greqs' = [greqs EXCEPT ![r] = NoGReq]
    /\ g_answer' = GAnswer(greqs[r], code, retry_after, stage)

\* the requests of an ip that are inside the middlewares
Inside(ip) == Cardinality({q \in GReqs : greqs[q].pc # "none"
                                         /\ greqs[q].ip = ip})

\* a request enters security_check_middleware; an ip sends at most MaxSent
\* requests at one instant and in one life of its burst counter
Arrive(r, ip) ==
    /\ greqs[r].pc = "none"
    /\ \A q \in GReqs : q < r => greqs[q].pc # "none"
    /\ passed[ip] + Inside(ip) < MaxSent
    /\ suspicious[ip].count + Inside(ip) < MaxSent
    /\ greqs' = [greqs EXCEPT ![r] =
                   [NoGReq EXCEPT !.ip = ip, !.id = Identifier(ip, api_key),
                                  !.pc = "block"]]
    /\ g_answer' = NoGAnswer
    /\ UNCHANGED <<g_client, store_up, clock, blocked, suspicious, minute,
                   hour, api_key, passed>>
    /\ UNCHANGED <<dispatchVars, gatewayVars>>

IsBlocked_never(ip) == FALSE

\* "if is_blocked": the key blocked_ip:<ip> is in the store
IsBlocked(ip) == blocked[ip] # -1

\* check_blocked_ip: is_blocked = await redis_client.get(blocked_ip:<ip>)
CheckBlockedIp(r) ==
    /\ greqs[r].pc = "block"
    /\ IF Raises THEN GoOn(r, ExceptNext("block"))
       ELSE IF IsBlocked(greqs[r].ip)
       THEN Reject(r, 403, 0, "block")
       ELSE GoOn(r, AfterBlockCheck)
    /\ UNCHANGED <<g_client, store_up, clock, blocked, suspicious, minute,
                   hour, api_key, passed>>
    /\ UNCHANGED <<dispatchVars, gatewayVars>>

\* detect_suspicious_activity: count = await redis_client.incr(key)
SuspiciousIncr(r) ==
    LET ip == greqs[r].ip IN
    /\ greqs[r].pc = "s_incr"
    /\ suspicious' = IF Unavailable THEN suspicious
                     ELSE [suspicious EXCEPT ![ip] = Incr(@)]
    /\ IF Raises THEN GoOn(r, ExceptNext("s_incr"))
       ELSE /\ greqs' = [greqs EXCEPT ![r].pc = "s_expire",
                                      ![r].count = suspicious'[ip].count]
            /\ g_answer' = NoGAnswer
    /\ UNCHANGED <<g_client, store_up, clock, blocked, minute, hour,
                   api_key, passed>>
    /\ UNCHANGED <<dispatchVars, gatewayVars>>

\* await redis_client.expire(key, 60) and the test of the threshold
SuspiciousExpire(r) ==
    LET ip == greqs[r].ip IN
    /\ greqs[r].pc = "s_expire"
    /\ suspicious' = IF Unavailable THEN suspicious
                     ELSE [suspicious EXCEPT ![ip] = Expire_(@, BURST_TTL)]
    /\ IF Raises THEN GoOn(r, ExceptNext("s_expire"))
       ELSE IF greqs[r].count > BurstThreshold THEN GoOn(r, "s_block")
       ELSE GoOn(r, SecurityCallNext)
    /\ UNCHANGED <<g_client, store_up, clock, blocked, minute, hour,
                   api_key, passed>>
    /\ UNCHANGED <<dispatchVars, gatewayVars>>

\* await redis_client.setex(blocked_ip:<ip>, 3600, "1"), then the 429
BlockIp(r) ==
    LET ip == greqs[r].ip IN
    /\ greqs[r].pc = "s_block"
    /\ blocked' = IF Unavailable THEN blocked
                  ELSE [blocked EXCEPT ![ip] = clock + BLOCK_TTL]
    /\ IF Raises THEN GoOn(r, ExceptNext("s_block"))
       ELSE Reject(r, 429, 0, "burst")
    /\ UNCHANGED <<g_client, store_up, clock, suspicious, minute, hour,
                   api_key, passed>>
    /\ UNCHANGED <<dispatchVars, gatewayVars>>

\* check_rate_limit: minute_count = await redis_client.get(key_minute) and
\* the test of the per-minute limit
RlGetMinute(r) ==
    LET id == greqs[r].id IN
    /\ greqs[r].pc = "rl_minute"
    /\ IF Raises THEN GoOn(r, ExceptNext("rl_minute"))
       ELSE IF minute[id].count # 0 /\ minute[id].count >= MinuteLimit
       THEN Reject(r, 429, RETRY_AFTER_MINUTE, "rate_minute")
       ELSE GoOn(r, "rl_hour")
    /\ UNCHANGED <<g_client, store_up, clock, blocked, suspicious, minute,
                   hour, api_key, passed>>
    /\ UNCHANGED <<dispatchVars, gatewayVars>>

\* hour_count = await redis_client.get(key_hour) and the test of the
\* per-hour limit
RlGetHour(r) ==
    LET id == greqs[r].id IN
    /\ greqs[r].pc = "rl_hour"
    /\ IF Raises THEN GoOn(r, ExceptNext("rl_hour"))
       ELSE IF hour[id].count # 0 /\ hour[id].count >= HourLimit
       THEN Reject(r, 429, RETRY_AFTER_HOUR, "rate_hour")
       ELSE GoOn(r, "rl_incr_m")
    /\ UNCHANGED <<g_client, store_up, clock, blocked, suspicious, minute,
                   hour, api_key, passed>>
    /\ UNCHANGED <<dispatchVars, gatewayVars>>

\* await redis_client.incr(key_minute)
RlIncrMinute(r) ==
    LET id == greqs[r].id IN
    /\ greqs[r].pc = "rl_incr_m"
    /\ minute' = IF Unavailable THEN minute
                 ELSE [minute EXCEPT ![id] = Incr(@)]
    /\ IF Raises THEN GoOn(r, ExceptNext("rl_incr_m"))
       ELSE GoOn(r, "rl_exp_m")
    /\ UNCHANGED <<g_client, store_up, clock, blocked, suspicious, hour,
                   api_key, passed>>
    /\ UNCHANGED <<dispatchVars, gatewayVars>>

\* await redis_client.expire(key_minute, 60)
RlExpireMinute(r) ==
    LET id == greqs[r].id IN
    /\ greqs[r].pc = "rl_exp_m"
    /\ minute' = IF Unavailable THEN minute
                 ELSE [minute EXCEPT ![id] = Expire_(@, MINUTE_TTL)]
    /\ IF Raises THEN GoOn(r, ExceptNext("rl_exp_m"))
       ELSE GoOn(r, "rl_incr_h")
    /\ UNCHANGED <<g_client, store_up, clock, blocked, suspicious, hour,
                   api_key, passed>>
    /\ UNCHANGED <<dispatchVars, gatewayVars>>

\* await redis_client.incr(key_hour)
RlIncrHour(r) ==
    LET id == greqs[r].id IN
    /\ greqs[r].pc = "rl_incr_h"
    /\ hour' = IF Unavailable THEN hour
               ELSE [hour EXCEPT ![id] = Incr(@)]
    /\ IF Raises THEN GoOn(r, ExceptNext("rl_incr_h"))
       ELSE GoOn(r, "rl_exp_h")
    /\ UNCHANGED <<g_client, store_up, clock, blocked, suspicious, minute,
                   api_key, passed>>
    /\ UNCHANGED <<dispatchVars, gatewayVars>>

\* await redis_client.expire(key_hour, 3600) and return True
RlExpireHour(r) ==
    LET id == greqs[r].id IN
    /\ greqs[r].pc = "rl_exp_h"
    /\ hour' = IF Unavailable THEN hour
               ELSE [hour EXCEPT ![id] = Expire_(@, HOUR_TTL)]
    /\ IF Raises THEN GoOn(r, ExceptNext("rl_exp_h"))
       ELSE GoOn(r, RateLimitCallNext)
    /\ UNCHANGED <<g_client, store_up, clock, blocked, suspicious, minute,
                   api_key, passed>>
    /\ UNCHANGED <<dispatchVars, gatewayVars>>

\* response = await call_next(request) of rate_limit_middleware: the route
\* handler answers
CallNext(r) ==
    /\ greqs[r].pc = "business"
    /\ greqs' = [greqs EXCEPT ![r] = NoGReq]
    /\ g_answer' = GAnswer(greqs[r], 200, 0, "business")
    /\ passed' = [passed EXCEPT ![greqs[r].ip] = @ + 1]
    /\ UNCHANGED <<g_client, store_up, clock, blocked, suspicious, minute,
                   hour, api_key>>
    /\ UNCHANGED <<dispatchVars, gatewayVars>>

\* the store goes down
StoreFails ==
    /\ g_client # "None"
    /\ store_up
    /\ store_up' = FALSE
    /\ g_answer' = NoGAnswer
    /\ UNCHANGED <<g_client, clock, blocked, suspicious, minute, hour, greqs,
                   api_key, passed>>
    /\ UNCHANGED <<dispatchVars, gatewayVars>>

\* a key of the store after the clock has reached t
Expired(k, t) == IF k.exp # -1 /\ k.exp <= t THEN NoKey ELSE k

\* the instants over which the clock is followed: the start, the ends of
\* the TTLs counted from the start, and one second after each of them
GuardInstants ==
    {t \in {0, 1, MINUTE_TTL, MINUTE_TTL + 1, HOUR_TTL, HOUR_TTL + 1} :
        t <= MaxGuardTime}

\* time passes until the instant t and the store drops the keys whose TTL
\* has run out.  Time passes between two requests, not within one; the
\* tally of the requests of the present instant starts again.
GuardTick(t) ==
    /\ t > clock
    /\ \A r \in GReqs : greqs[r].pc = "none"
    /\ clock' = t
    /\ blocked' = [ip \in Ips |->
                     IF blocked[ip] # -1 /\ blocked[ip] <= t
                     THEN -1 ELSE blocked[ip]]
    /\ suspicious' = [ip \in Ips |-> Expired(suspicious[ip], t)]
    /\ minute' = [id \in Ids |-> Expired(minute[id], t)]
    /\ hour' = [id \in Ids |-> Expired(hour[id], t)]
    /\ passed' = [ip \in Ips |-> 0]
    /\ g_answer' = NoGAnswer
    /\ UNCHANGED <<g_client, store_up, greqs, api_key>>
    /\ UNCHANGED <<dispatchVars, gatewayVars>>

NextGuard ==
    \/ \E r \in GReqs, ip \in Ips : Arrive(r, ip)
    \/ \E r \in GReqs : CheckBlockedIp(r)
    \/ \E r \in GReqs : SuspiciousIncr(r)
    \/ \E r \in GReqs : SuspiciousExpire(r)
    \/ \E r \in GReqs : BlockIp(r)
    \/ \E r \in GReqs : RlGetMinute(r)
    \/ \E r \in GReqs : RlGetHour(r)
    \/ \E r \in GReqs : RlIncrMinute(r)
    \/ \E r \in GReqs : RlExpireMinute(r)
    \/ \E r \in GReqs : RlIncrHour(r)
    \/ \E r \in GReqs : RlExpireHour(r)
    \/ \E r \in GReqs : CallNext(r)
    \/ StoreFails
    \/ \E t \in GuardInstants : GuardTick(t)

\* ========================================================================
\* Specifications
\* ========================================================================
\* the gateway, with the delivery engine at rest
Init == GatewayInit /\ DispatchQuiet /\ GuardQuiet
Spec == Init /\ [][Next]_vars

\* one call of dispatch_event
InitDispatch == DispatchInit /\ GatewayQuiet /\ GuardQuiet
SpecDispatch == InitDispatch /\ [][NextDispatch]_vars

\* one dispatch_stream_event: the fan-out to the subscriptions of an app
InitFanout == FanoutInit /\ GatewayQuiet /\ GuardQuiet

\* the guard, with the gateway and the delivery engine at rest
InitGuard == GuardInit /\ GatewayQuiet /\ DispatchQuiet
SpecGuard == InitGuard /\ [][NextGuard]_vars
SpecFanout == InitFanout /\ [][NextFanout]_vars

\* ========================================================================
\* Properties of the gateway (specification Spec)
\* ========================================================================
\* the session store holds a Live session for the key
Live(k) ==
    IF redis_available THEN status[k] = "live"
    ELSE \E i \in Insts : active_streams[i][k].present

\* the registry the handler of instance i consults reports the key Live
RegistryLive(i, k) ==
    IF redis_available THEN status[k] = "live"
    ELSE active_streams[i][k].present

\* the step stores a session for the publish handled in slot r
Grants(r) ==
    /\ reqs[r].kind = "publish"
    /\ \/ reqs[r].pc = "set_status" /\ reqs'[r].pc = "set_data"
       \/ reqs[r].pc = "validate" /\ reqs'[r].pc = "notify"

\* the step is the one in which the handler in slot r returns its answer
Returns(r) == InFlight(r) /\ reqs'[r].kind = "none" /\ answered' # NoAnswer

\* the step is one in which the handler in slot r is lost with its process
Killed(r) == InFlight(r) /\ reqs'[r].kind = "none" /\ answered' = NoAnswer

\* the step is the step of auth_publish in slot r that follows the
\* validation call, which ended in v
AfterValidation(r, v) ==
    /\ reqs[r].kind = "publish" /\ reqs[r].pc = "validate"
    /\ reqs'[r] # reqs[r]
    /\ IF reqs'[r].kind = "none" THEN answered'.vres = v
       ELSE reqs'[r].vres = v

\* C1: of the publish requests handled concurrently for one key, one is
\* admitted and every other is refused: no publish is granted a session for
\* a key that already has a Live session.
C1_OneLivePublisherPerKey ==
    [][\A r \in Reqs : Grants(r) => ~Live(reqs[r].key)]_vars

\* C2: the viewer count of every key is >= 0 in every reachable state.
C2_ViewerCountNeverNegative == \A k \in Keys : viewers[k] >= 0

C4_InvalidKeyDenied403 ==
    [][\A r \in Reqs :
         AfterValidation(r, "not_found") =>
            /\ Returns(r)
            /\ answered'.resp = 403
            /\ outbox' = NoEvent
            /\ UNCHANGED <<status, expires, data, active_streams>>
      ]_vars

C6_ValidationFailureNever500 ==
    (answered.kind = "publish"
     /\ answered.vres \in {"fail_open", "error_status", "request_error"})
        => answered.resp # 500

\* ========================================================================
\* Properties of dispatch_event (specification SpecDispatch)
\* ========================================================================
Is2xx(resp) ==
    resp.exc = "none" /\ resp.status_code >= 200 /\ resp.status_code <= 299
Is4xx(resp) ==
    resp.exc = "none" /\ resp.status_code >= 400 /\ resp.status_code <= 499
Is5xx(resp) ==
    resp.exc = "none" /\ resp.status_code >= 500 /\ resp.status_code <= 599
IsTransportFailure(resp) == resp.exc # "none"

\* every attempt made so far ended the way Test says, and one was made
EveryAttempt(Test(_)) ==
    /\ responses # <<>>
    /\ \A n \in 1..Len(responses) : Test(responses[n])

\* the waits 1s, 2s, 4s, ... between n + 1 attempts
BackoffWaits(n) == [j \in 1..n |-> 2 ^ (j - 1)]

\* C7: with max_retries = 3, a subscriber that answers 5xx to every attempt
\* gets exactly 3 attempts, with waits of 1s and 2s and none after the last,
\* and the dispatch ends failed with the reason "Maximum retries exceeded".
C7_ServerErrorsExhaustRetries ==
    (max_retries = 3 /\ EveryAttempt(Is5xx)) =>
        /\ Len(responses) <= 3
        /\ call.posts = Len(responses)
        /\ call.pc = "sleep" => call.sleeps = BackoffWaits(Len(responses))
        /\ Len(responses) < 3 => call.pc # "done"
        /\ call.pc = "done" =>
              /\ call.sleeps = <<1, 2>>
              /\ call.result = Result(FALSE, 0, "Maximum retries exceeded", 3)

\* three attempts were answered 5xx and the dispatch has ended
C7_Witness ==
    /\ max_retries = 3
    /\ EveryAttempt(Is5xx)
    /\ Len(responses) = 3
    /\ call.pc = "done"

\* C8: a subscriber that answers 4xx to the first attempt gets exactly one
\* attempt: the dispatch ends failed with attempt = 1, without wait or retry.
C8_ClientErrorNoRetry ==
    (responses # <<>> /\ Is4xx(responses[1])) =>
        /\ Len(responses) = 1
        /\ call.pc = "done"
        /\ call.sleeps = <<>>
        /\ call.result.delivered = FALSE
        /\ call.result.attempt = 1
        /\ call.result.status_code = responses[1].status_code

\* the first attempt was answered 404 and the dispatch has ended
C8_Witness ==
    /\ Len(responses) = 1
    /\ responses[1] = [exc |-> "none", status_code |-> 404]
    /\ call.pc = "done"
    /\ max_retries > 1

\* C9: every response with a status in 200..299 is a success and the last
\* attempt of the dispatch; (4xx fails without retry, 5xx is retried).
C9_Every2xxIsSuccess ==
    \A n \in 1..Len(responses) :
        Is2xx(responses[n]) =>
            /\ n = Len(responses)
            /\ call.pc = "done"
            /\ call.result.delivered

\* C10 as stated: a subscriber whose every attempt ends in a timeout or a
\* connection error gets max_retries attempts with the backoff of a 5xx and
\* the dispatch ends with the reason "Maximum retries exceeded".
C10_TransportFailuresSameReason ==
    (EveryAttempt(IsTransportFailure) /\ call.pc = "done") =>
        /\ Len(responses) = max_retries
        /\ call.sleeps = BackoffWaits(max_retries - 1)
        /\ call.result = Result(FALSE, 0, "Maximum retries exceeded",
                                max_retries)

\* C10 amended: ... gets max_retries attempts with the backoff of a 5xx and
\* the dispatch ends failed with attempt = max_retries; the reason is
\* "Timeout after maximum retries" when the last attempt timed out and the
\* text of the exception when it raised another error.
C10_TransportFailuresExhaustRetries ==
    EveryAttempt(IsTransportFailure) =>
        /\ Len(responses) <= max_retries
        /\ Len(responses) < max_retries => call.pc # "done"
        /\ call.pc = "sleep" => call.sleeps = BackoffWaits(Len(responses))
        /\ Len(responses) = max_retries =>
              /\ call.pc = "done"
              /\ call.sleeps = BackoffWaits(max_retries - 1)
              /\ call.result =
                    Result(FALSE, 0,
                           IF responses[max_retries].exc = "TimeoutException"
                           THEN "Timeout after maximum retries"
                           ELSE responses[max_retries].exc,
                           max_retries)

\* every one of max_retries > 1 attempts ended in a timeout or a connection
\* error, of both kinds, and the dispatch has ended
C10_Witness ==
    /\ max_retries > 1
    /\ Len(responses) = max_retries
    /\ EveryAttempt(IsTransportFailure)
    /\ \E n, m \in 1..Len(responses) : responses[n].exc # responses[m].exc
    /\ call.pc = "done"

\* ========================================================================
\* Properties of the fan-out (specification SpecFanout)
\* ========================================================================
\* the rows of db.webhooks the event is for: of the app, active, subscribed
Matching(h) ==
    /\ db_webhooks[h].app_id = d_call.app_id
    /\ db_webhooks[h].is_active
    /\ d_call.event_type \in db_webhooks[h].events

\* the POSTs made to subscription h in this fan-out
AttemptsTo(h) ==
    LET idx == {i \in DOMAIN tasks : tasks[i].hook = h}
    IN IF idx = {} THEN 0 ELSE tasks[CHOOSE i \in idx : TRUE].posts

\* the rows of db.webhook_logs that name subscription h
LogRowsOf(h) ==
    Cardinality({i \in DOMAIN webhook_logs : webhook_logs[i].webhook_id = h})

\* C11: when a dispatch has completed, the number of log rows of each
\* subscription equals the number of attempts made to that subscription.
C11_OneLogRowPerAttempt ==
    d_pc = "done" => \A h \in Hooks : LogRowsOf(h) = AttemptsTo(h)

\* C12: within one fan-out a coroutine that is failing, timing out or
\* sleeping in its backoff neither stops nor delays another one: a coroutine
\* whose POST or sleep is over can always go on, its step is the step
\* dispatch_event makes on its own, and no step touches two coroutines.
C12_FanoutIsolation ==
    /\ [](\A i \in DOMAIN tasks :
            /\ (d_pc = "gather" /\ tasks[i].pc = "post")
                  => \A resp \in Responses : ENABLED Post(i, resp)
            /\ (d_pc = "gather" /\ tasks[i].pc = "sleep") => ENABLED Wake(i)
            /\ tasks[i].posts <= tasks[i].attempt
            /\ tasks[i].pc = "done" =>
                  /\ tasks[i].posts = tasks[i].result.attempt
                  /\ tasks[i].sleeps =
                        [n \in 1..(tasks[i].posts - 1) |-> WaitTime(n)])
    /\ [][\A i \in DOMAIN tasks :
            tasks'[i] # tasks[i] =>
               /\ \/ \E resp \in Responses :
                        tasks'[i] = AfterPost(tasks[i], resp, max_retries)
                  \/ tasks'[i] = NextAttempt(tasks[i])
               /\ \A j \in DOMAIN tasks : j # i => tasks'[j] = tasks[j]
        ]_vars

\* one coroutine has delivered at its first attempt while another one, still
\* failing, is in its second backoff
C12_Witness ==
    /\ d_pc = "gather"
    /\ \E i, j \in DOMAIN tasks :
          /\ tasks[i].pc = "done" /\ tasks[i].result.delivered
          /\ tasks[i].result.attempt = 1
          /\ tasks[j].pc = "sleep" /\ tasks[j].posts = 2

Fields(p) == {p[i] : i \in DOMAIN p}

\* the canonical serialization of a set of fields: ascending by key
Canonical(F) ==
    CHOOSE c \in [1..Cardinality(F) -> F] :
        /\ \A f \in F : \E i \in DOMAIN c : c[i] = f
        /\ \A i, j \in DOMAIN c :
              i < j => KeyOrder(c[i].key) < KeyOrder(c[j].key)

\* C14: with a secret S every POST carries the signature header "sha256="
\* followed by the HMAC-SHA256 of S over the canonical serialization of the
\* payload's fields, which is the same for every insertion order; with no
\* secret (None) no POST carries a signature header.
C14_SignatureOverCanonicalPayload ==
    posted.sent =>
       /\ secret \notin {"None", ""} =>
             /\ posted.headers.signed
             /\ posted.headers.scheme = "sha256="
             /\ posted.headers.digest =
                   HmacSha256Hex(secret, Canonical(Fields(payload)))
       /\ secret = "None" => ~posted.headers.signed

\* the third POST of a dispatch with a secret has been sent, for a payload
\* whose fields were not inserted in the order of their keys
C14_Witness ==
    /\ call.attempt = 3 /\ call.posts = 3
    /\ posted.sent
    /\ secret = "s1"
    /\ payload # Canonical(Fields(payload))
    /\ posted.headers.signed

\* ========================================================================
\* Properties of the guard (specification SpecGuard)
\* ========================================================================
\* the store has answered every command so far
StoreOk == g_client # "None" /\ store_up

\* the stage of the guard a request is in, or an answer came from
StageRank(pc) ==
    CASE pc = "block" -> 1
      [] pc \in {"s_incr", "s_expire", "s_block", "burst"} -> 2
      [] pc \in {"rl_minute", "rl_hour", "rl_incr_m", "rl_exp_m",
                 "rl_incr_h", "rl_exp_h", "rate_minute", "rate_hour"} -> 3
      [] pc = "business" -> 4
      [] OTHER -> 0

\* C15: with a per-minute limit L, of the requests an identifier sends
\* within one window at most L are allowed, and the one after them is
\* rejected with 429 and Retry-After: 60.
C15_MinuteLimitEnforced ==
    /\ StoreOk => \A ip \in Ips : passed[ip] <= MinuteLimit
    /\ g_answer.stage = "rate_minute" =>
          g_answer.code = 429 /\ g_answer.retry_after = 60

\* C16: with a burst threshold T, of the requests an IP sends within one
\* burst window at most T pass, every further one is answered 429, and the
\* block written by the burst check lasts 3600 s.
C16_BurstBlocksFor3600 ==
    /\ StoreOk => \A ip \in Ips : passed[ip] <= BurstThreshold
    /\ g_answer.stage \in {"block", "burst"} => g_answer.code = 429
    /\ g_answer.stage = "burst" => blocked[g_answer.ip] = clock + 3600

C18_FailOpen ==
    [][\A r \in GReqs :
         (greqs[r].pc # "none" /\ greqs'[r] # greqs[r] /\ ~StoreOk) =>
            /\ greqs'[r].pc = "none" =>
                  (g_answer'.code = 200 /\ g_answer'.stage = "business")
            /\ greqs'[r].pc # "none" =>
                  StageRank(greqs'[r].pc) > StageRank(greqs[r].pc)
      ]_vars

\* the store went down after the burst counter had counted a request, and
\* a request has been answered by the business logic all the same
C18_Witness ==
    /\ ~store_up
    /\ g_answer.code = 200
    /\ g_answer.stage = "business"
    /\ \E ip \in Ips : suspicious[ip].count >= 1

EndsSession(k) ==
    \E r \in Reqs :
       \/ /\ reqs[r].kind = "publish_done" /\ reqs[r].key = k
          /\ reqs[r].pc = "pd_del_status" /\ reqs'[r].pc = "pd_del_data"
       \/ /\ ~InFlight(r)
          /\ reqs'[r].kind = "publish_done" /\ reqs'[r].key = k
          /\ reqs'[r].pc = "notify"

\* the step lets the TTL of the session of k run out
TtlExpiry(k) == expires[k] # -1 /\ now' > now /\ expires[k] <= now'

C22_AnswerDoesNotWaitForSinks ==
    \A r \in Reqs :
       reqs[r].kind \in {"publish", "publish_done"} => reqs[r].pc # "notify"

\* the step is one of a notify_stream_event coroutine
BgStep == bg_tasks' # bg_tasks /\ Len(bg_tasks') <= Len(bg_tasks)

\* C23: however the call of a notification sink ends, the handler that
\* awaited it answers 200 and the step leaves the session store unchanged;
\* a step of a background notification reaches neither an answer nor the
\* session store nor a handler.
C23_SinkFailureNeverChangesAnswer ==
    [][/\ answered'.sink # "none" =>
            /\ answered'.resp = 200
            /\ UNCHANGED <<status, expires, data, viewers, active_streams>>
       /\ BgStep =>
            /\ answered' = NoAnswer
            /\ UNCHANGED <<status, expires, data, viewers, active_streams,
                           reqs>>
      ]_vars

\* a publish has been answered 200 although its notification failed, and
\* the key is Live
C23_Witness ==
    /\ answered.kind = "publish"
    /\ answered.sink = "failed"
    /\ answered.resp = 200
    /\ Live(answered.key)

\* C24: the two sinks of an event are independent: a notification task ends
\* only with its call of the webhook dispatch, whatever the outcome of its
\* real-time broadcast.
C24_SinksIndependent ==
    [][(BgStep /\ Len(bg_tasks') < Len(bg_tasks)) =>
          \E t \in DOMAIN bg_tasks :
             /\ bg_tasks[t].pc = "dispatch"
             /\ bg_tasks' = Without(bg_tasks, t)
      ]_vars

\* a handler is between storing the session of k and giving it its TTL
Storing(k) ==
    \E r \in Reqs : reqs[r].key = k /\ reqs[r].pc \in {"set_data", "expire"}

\* C25: a Live session that no handler is still storing carries a TTL of at
\* most the session TTL, so that the key is Idle again once it has elapsed
\* even if publish_done never comes.
C25_LiveSessionCarriesTtl ==
    \A k \in Keys :
       (Live(k) /\ ~Storing(k)) =>
          (expires[k] # -1 /\ expires[k] <= now + SESSION_TTL)

\* C26: the viewer counter of a key carries a TTL: when a full session TTL
\* passes without a play, far longer than a short counter TTL, the counter
\* has expired.
C26_ViewerCounterExpires ==
    [][now' >= now + SESSION_TTL => \A k \in Keys : viewers'[k] = 0]_vars

\* the step hands the event of notification task t to the webhook dispatch:
\* its real-time call has returned and the task goes on to its second POST
HandsToDispatch(t) ==
    /\ t \in DOMAIN bg_tasks
    /\ bg_tasks[t].pc = "realtime"
    /\ bg_tasks' = [bg_tasks EXCEPT ![t].pc = "dispatch"]

\* C27: the events of one key reach the sinks in the order of the
\* transitions: a stream.offline is handed to the webhook dispatch only
\* when the stream.live emitted before it for the same key has been.
C27_LiveBeforeOffline ==
    [][\A t \in DOMAIN bg_tasks :
         (bg_tasks[t].event_type = "stream.offline" /\ HandsToDispatch(t)) =>
            ~\E u \in 1..(t - 1) :
                /\ bg_tasks[u].event_type = "stream.live"
                /\ bg_tasks[u].key = bg_tasks[t].key
                /\ bg_tasks[u].pc = "realtime"
      ]_vars

C29_LogRowNamesItsSubscription ==
    d_pc = "done" =>
       \A i \in DOMAIN webhook_logs :
          webhook_logs[i].webhook_id = tasks[i].hook

Renewing(id) ==
    \E r \in GReqs : greqs[r].id = id /\ greqs[r].pc = "rl_exp_m"

EmitsOffline(r) ==
    /\ handler = "main"
    /\ reqs'[r].kind = "publish_done"
    /\ reqs'[r].pc = "notify"
    /\ reqs[r].pc # "notify"

\* the started_at of the session the registry holds for k at instance i
StartedAt(i, k) ==
    IF redis_available THEN data[k].started_at
    ELSE active_streams[i][k].started_at

\* C34: the stream.offline event of a publish_done that found a session
\* carries duration = now - started_at, and a duration is unknown only when
\* no session was found.
C34_OfflineCarriesDuration ==
    [][\A r \in Reqs :
         EmitsOffline(r) =>
            IF reqs'[r].found
            THEN outbox'.duration = now - StartedAt(reqs'[r].inst,
                                                    reqs'[r].key)
            ELSE outbox'.duration = -1
      ]_vars

\* ========================================================================
\* The signature and the body (specification SpecDispatch)
\* ========================================================================
\* validate_webhook_signature: the signature a receiver computes from the
\* body it has received
ExpectedSignature(body, s) == HmacSha256Hex(s, body)

\* C35: the signature attached to a request is the HMAC of the body that is
\* sent: the receiver that computes HMAC-SHA256 over the received body with
\* the shared secret obtains the attached signature.
C35_SignatureOverSentBody ==
    (posted.sent /\ posted.headers.signed) =>
       posted.headers.digest = ExpectedSignature(posted.body, secret)

\* C36: the lifecycle events main.py emits for a key alternate, starting
\* with stream.live, and a publish_done that found no session emits no
\* stream.offline.
C36_EventsAlternate ==
    [][handler = "main" =>
          /\ \A k \in Keys :
                (outbox'.event_type # "none" /\ outbox'.key = k) =>
                   /\ outbox'.event_type # last_event[k]
                   /\ last_event[k] = "none" =>
                         outbox'.event_type = "stream.live"
          /\ \A r \in Reqs : EmitsOffline(r) => reqs'[r].found
      ]_vars

\* C37: a session that has just become Live starts with viewer count 0.
C37_NewSessionStartsWithoutViewers ==
    [][\A r \in Reqs : Grants(r) => viewers'[reqs[r].key] = 0]_vars

\* the POSTs of the dispatch: the ones that ended and the one under way
AttemptsMade == call.posts + (IF call.pc = "post" THEN 1 ELSE 0)

StatusKey(k) == <<"stream", k, "status">>
DataKey(k) == <<"stream", k, "data">>
BackendLiveKey(k) == <<"stream", "live", k>>

\* the names that hold a value in Redis: the gateway's handlers are the only
\* writers (mark_stream_live has no caller)
StoredNames ==
    IF redis_available
    THEN {StatusKey(k) : k \in {j \in Keys : status[j] = "live"}}
         \cup {DataKey(k) : k \in {j \in Keys : data[j] # NoData}}
    ELSE {}

\* is_stream_live(stream_key) of the backend: get_cache of stream:live:<key>
is_stream_live(k) == BackendLiveKey(k) \in StoredNames

\* C39: the backend's is_stream_live(key) is true exactly while the gateway
\* holds a Live session for key (after an allowed publish, until publish_done
\* or the expiry of the TTL).
C39_BackendAgreesWithGateway ==
    \A k \in Keys : is_stream_live(k) <=> Live(k)

\* C40: in main.py a failed validation call does not bypass the
\* one-live-session rule: a publish whose validation failed is answered 409
\* when the key is Live, and it is granted a session only for an Idle key,
\* which the grant makes Live.
C40_FailOpenKeepsOneLiveSession ==
    [][\A r \in Reqs :
         /\ (handler = "main"
             /\ AfterValidation(r, "fail_open")
             /\ RegistryLive(reqs[r].inst, reqs[r].key)) =>
               (Returns(r) /\ answered'.resp = 409)
         /\ (handler = "main"
             /\ Grants(r)
             /\ reqs'[r].vres = "fail_open") =>
               (~Live(reqs[r].key) /\ Live(reqs[r].key)')
      ]_vars
====
